---- MODULE Spec2Model ----
(***************************************************************************)
(* Model of kernel/src/fs/file.rs: the File trait with its default bodies, *)
(* and the RegularFile, DirFile and CharacterFile open-file variants.      *)
(*                                                                         *)
(* isize is modelled as the bounded signed range MinPos..MaxPos.  Every    *)
(* `.await` that can suspend (taking an AsyncMutex, an inode call) is a    *)
(* step boundary; code between two suspension points is one atomic step.   *)
(***************************************************************************)
EXTENDS Integers, Sequences, FiniteSets, TLC

VARIABLES
    pos,        \* RegularFile.pos / CharacterFile.pos : the value inside AsyncMutex<isize>
    size,       \* inode.metadata().inner.size
    posLock,    \* holder of the `pos` AsyncMutex (0 = free)
    prwLock,    \* holder of RegularFile.prw_lock      (0 = free)
    pc,         \* pc[t]  : where task t stands inside its current call
    call,       \* call[t]: the locals of task t's current call
    panicked,   \* the kernel panicked (arithmetic overflow with overflow checks on)
    base,       \* history: cursor when the current group of positioned calls began
                \*          (the cursor itself while none is in flight, 0 once ~clean)
    clean,      \* history: no unpositioned call ran since that group began
    last,       \* history: the step just taken (operation, arguments, result)
    dpos,       \* DirFile.pos : the value inside AsyncMutex<usize>
    dirLock,    \* holder of the DirFile `pos` AsyncMutex (0 = free)
    unlinked,   \* inode.metadata().inner.unlinked
    parent,     \* inode.metadata().parent : "none" | "dead" | "live"
    nchild,     \* number of children lookup_idx can resolve
    dlog,       \* history: the entries readdir has returned, in order
    inodeCall,  \* history: the last ioctl: the variant it was made on, its arguments,
                \*          whether inode.ioctl was called, with what, and its result
    variant     \* which impl of File the open file is: "regular" | "dir" | "char"

vars == <<pos, size, posLock, prwLock, pc, call, panicked, base, clean, last,
          dpos, dirLock, unlinked, parent, nchild, dlog, inodeCall, variant>>

regVars == <<pos, size, posLock, prwLock, pc, call, panicked, base, clean>>
fileVars == <<pos, size, posLock, prwLock, panicked, base, clean>>
dirVars == <<dpos, dirLock, unlinked, parent, nchild, dlog>>

-----------------------------------------------------------------------------
(* Bounds of the model *)

MaxPos == 3
MinPos == -MaxPos - 1
NumTasks == 2
MaxCount == 2
MaxChildren == 2

Tasks == 1..NumTasks
Position == MinPos..MaxPos
Whence == {"Set", "Cur", "End"}
SeekArgs == [whence : Whence, off : Position]

\* The three impls of File, and the methods of the trait
Variants == {"regular", "dir", "char"}
Ops == {"as_socket", "read", "write", "truncate", "sync", "seek", "ioctl",
        "pread", "pwrite", "readdir", "pollin", "pollout"}

\* Faulty variant: every default body reports the operation as unsupported
default_result_all_eopnotsupp(op) ==
    IF op \in {"pollin", "pollout"} THEN [ok |-> TRUE, val |-> 1, err |-> "none"]
    ELSE [ok |-> FALSE, val |-> 0, err |-> "EOPNOTSUPP"]

\* The default bodies of trait File; Ok(true) of pollin / pollout is value 1
default_result(op) ==
    CASE op = "as_socket" -> [ok |-> FALSE, val |-> 0, err |-> "ENOTSOCK"]
      [] op \in {"read", "write", "truncate", "sync", "seek", "pread", "pwrite"} ->
            [ok |-> FALSE, val |-> 0, err |-> "EOPNOTSUPP"]
      [] op = "ioctl" -> [ok |-> FALSE, val |-> 0, err |-> "ENOTTY"]
      [] op = "readdir" -> [ok |-> FALSE, val |-> 0, err |-> "ENOTDIR"]
      [] op \in {"pollin", "pollout"} -> [ok |-> TRUE, val |-> 1, err |-> "none"]

\* DirFile::read: `Err(Errno::EISDIR)`
dir_read == [ok |-> FALSE, val |-> 0, err |-> "EISDIR"]

\* The impl block whose body runs when op is called on a file of the given
\* variant: the variant's own where it defines op, the trait's default otherwise
impl_of(kind, op) ==
    IF kind = "regular" /\ op \in {"read", "write", "truncate", "sync", "seek",
                                   "pread", "pwrite"}
    THEN "RegularFile"
    ELSE IF kind = "char" /\ op \in {"read", "write", "ioctl"} THEN "CharacterFile"
    ELSE IF kind = "dir" /\ op \in {"readdir", "read"} THEN "DirFile"
    ELSE "File"

-----------------------------------------------------------------------------
(* SyscallResult<isize> *)

Ok(v) == [ok |-> TRUE, val |-> v, err |-> "none"]
Err(e) == [ok |-> FALSE, val |-> 0, err |-> e]
NoRet == [ok |-> FALSE, val |-> 0, err |-> "pending"]

NoSeek == [whence |-> "none", off |-> 0]

\* Arc<dyn Inode>: the directory itself, its parent, its i-th child
SelfIno == [kind |-> "self", n |-> 0]
ParentIno == [kind |-> "parent", n |-> 0]
ChildIno(i) == [kind |-> "child", n |-> i]
NoIno == [kind |-> "none", n |-> 0]

\* No ioctl made yet
NoIoctl == [kind |-> "none", args |-> <<>>, called |-> FALSE, passed |-> <<>>,
            res |-> NoRet]

\* Option<(usize, Arc<dyn Inode>)>
SomeEnt(i, ino) == [some |-> TRUE, idx |-> i, ino |-> ino]
NoEnt == [some |-> FALSE, idx |-> 0, ino |-> NoIno]
\* buf, n: read_all's `buf`, as the file offsets of the bytes in it, and the
\* number of reads it has issued
NoCall == [op |-> "none", off |-> 0, old |-> 0, ioOff |-> 0, ret |-> NoRet,
           buf |-> <<>>, n |-> 0]

Max(a, b) == IF a >= b THEN a ELSE b
Min(a, b) == IF a <= b THEN a ELSE b

\* isize::checked_add
checked_add(a, b) ==
    IF a + b >= MinPos /\ a + b <= MaxPos
    THEN [some |-> TRUE, v |-> a + b]
    ELSE [some |-> FALSE, v |-> 0]

\* isize `+=` without overflow checks: two's complement wrap
wrapping_add(a, b) ==
    ((a + b - MinPos) % (MaxPos - MinPos + 1)) + MinPos

overflow_err(off) == IF off < 0 THEN "EINVAL" ELSE "EOVERFLOW"

\* Faulty variant: Cur/End store the wrapped sum instead of failing
seek_wrapping(p, sz, sk) ==
    CASE sk.whence = "Set" ->
            IF sk.off < 0 THEN [ret |-> Err("EINVAL"), pos |-> p]
            ELSE [ret |-> Ok(sk.off), pos |-> sk.off]
      [] sk.whence = "Cur" ->
            [ret |-> Ok(wrapping_add(p, sk.off)), pos |-> wrapping_add(p, sk.off)]
      [] sk.whence = "End" ->
            [ret |-> Ok(wrapping_add(sz, sk.off)), pos |-> wrapping_add(sz, sk.off)]

\* Faulty variant: the position is stored before the new value is validated
seek_store_first(p, sz, sk) ==
    CASE sk.whence = "Set" ->
            IF sk.off < 0 THEN [ret |-> Err("EINVAL"), pos |-> sk.off]
            ELSE [ret |-> Ok(sk.off), pos |-> sk.off]
      [] sk.whence = "Cur" ->
            LET r == checked_add(p, sk.off) IN
            IF r.some THEN [ret |-> Ok(r.v), pos |-> r.v]
            ELSE [ret |-> Err(overflow_err(sk.off)), pos |-> wrapping_add(p, sk.off)]
      [] sk.whence = "End" ->
            LET r == checked_add(sz, sk.off) IN
            IF r.some THEN [ret |-> Ok(r.v), pos |-> r.v]
            ELSE [ret |-> Err(overflow_err(sk.off)), pos |-> wrapping_add(sz, sk.off)]

\* Faulty variant: Set is taken relative to the current position
seek_set_relative(p, sz, sk) ==
    CASE sk.whence = "Set" ->
            IF sk.off < 0 THEN [ret |-> Err("EINVAL"), pos |-> p]
            ELSE LET r == checked_add(p, sk.off) IN
                 IF r.some THEN [ret |-> Ok(r.v), pos |-> r.v]
                 ELSE [ret |-> Err("EOVERFLOW"), pos |-> p]
      [] sk.whence = "Cur" ->
            LET r == checked_add(p, sk.off) IN
            IF r.some THEN [ret |-> Ok(r.v), pos |-> r.v]
            ELSE [ret |-> Err(overflow_err(sk.off)), pos |-> p]
      [] sk.whence = "End" ->
            LET r == checked_add(sz, sk.off) IN
            IF r.some THEN [ret |-> Ok(r.v), pos |-> r.v]
            ELSE [ret |-> Err(overflow_err(sk.off)), pos |-> p]

\* RegularFile::seek with the position lock held: p is *pos, sz the inode size.
\* Yields the call's result and the value *pos holds afterwards.
seek(p, sz, sk) ==
    CASE sk.whence = "Set" ->
            IF sk.off < 0 THEN [ret |-> Err("EINVAL"), pos |-> p]
            ELSE [ret |-> Ok(sk.off), pos |-> sk.off]
      [] sk.whence = "Cur" ->
            LET r == checked_add(p, sk.off) IN
            IF r.some THEN [ret |-> Ok(r.v), pos |-> r.v]
            ELSE [ret |-> Err(overflow_err(sk.off)), pos |-> p]
      [] sk.whence = "End" ->
            LET r == checked_add(sz, sk.off) IN
            IF r.some THEN [ret |-> Ok(r.v), pos |-> r.v]
            ELSE [ret |-> Err(overflow_err(sk.off)), pos |-> p]

-----------------------------------------------------------------------------
(* The inode behind the file (kernel/src/fs/inode.rs is outside this file) *)

\* Results inode.read(buf, off) may produce: an error, or the bytes available
\* at off (at least one while off is inside the file, none at or past its end).
InodeReadResults(sz, off) ==
    {Err("EIO")} \cup
    {Ok(c) : c \in (IF off >= 0 /\ off < sz THEN 1..Min(MaxCount, sz - off) ELSE {0})}

\* Results inode.write(buf, off) may produce: an error or any count up to the
\* buffer length.
InodeWriteResults(off) == {Err("EIO")} \cup {Ok(c) : c \in 0..MaxCount}

\* The inode size after a write of c bytes at off
SizeAfterWrite(sz, off, c) ==
    IF off >= 0 /\ c > 0 THEN Max(sz, Min(off + c, MaxPos)) ELSE sz

\* Results inode.truncate(size) may produce
InodeTruncateResults(sz) == IF sz < 0 THEN {Err("EINVAL")} ELSE {Ok(0), Err("EIO")}

-----------------------------------------------------------------------------
(* RegularFile *)

PrwOps == {"pread", "pwrite"}
RwOps == {"read", "write"}
\* The positioned calls in flight, from invocation to return
InPrw == {t \in Tasks : call[t].op \in PrwOps}
\* Between the capture of the cursor (seek(Cur(0))) and its restoration
InSection(t) ==
    call[t].op \in PrwOps /\ pc[t] \in {"p_set", "p_io", "rw_inode", "p_restore"}

\* t, op: the task and the call it is in; done: the call returned in this step,
\* with ret; sk, sret: the seek this step ran, if any, and that seek's result
\* ent: the entry a readdir returned, if any; buf, n: the bytes a read_all
\* returned and the number of reads it issued
NoLast == [t |-> 0, op |-> "init", done |-> FALSE, sk |-> NoSeek, sret |-> NoRet,
           ret |-> NoRet, ent |-> NoEnt, buf |-> <<>>, n |-> 0]

\* The history of steps is kept from Init on, or not at all
NoHist == [NoLast EXCEPT !.op = "untracked"]
Hist(rec) == IF last = NoHist THEN NoHist ELSE rec

Idle(t) == pc[t] = "idle" /\ ~panicked

\* `clean` after a step of an unpositioned call: such a step spoils the group
\* of positioned calls in flight, if there is one
PlainStepClean == InPrw = {}

\* `*pos += count`: the sum, or on overflow the wrapped sum (overflow checks
\* off) or a panic (overflow checks on)
add_assign(p, c) ==
    IF checked_add(p, c).some
    THEN {[panic |-> FALSE, pos |-> p + c]}
    ELSE {[panic |-> FALSE, pos |-> wrapping_add(p, c)], [panic |-> TRUE, pos |-> p]}

\* Faulty variant: a plain call waits for prw_lock as well
plain_blocked_by_prw(pl, prw) == pl # 0 \/ prw # 0

\* `self.pos.lock().await` of read / write / seek called on their own: they
\* wait while the pos lock is held (pl), whoever holds prw_lock (prw)
plain_blocked(pl, prw) == pl # 0

\* RegularFile::seek called on its own: lock pos, compute, store, unlock
Seek(t, seeks) ==
    /\ Idle(t)
    /\ impl_of(variant, "seek") = "RegularFile"
    /\ ~plain_blocked(posLock, prwLock)
    /\ \E sk \in seeks :
         LET r == seek(pos, size, sk) IN
         /\ pos' = r.pos
         /\ last' = Hist([NoLast EXCEPT !.t = t, !.op = "seek", !.done = TRUE, !.sk = sk,
                                        !.sret = r.ret, !.ret = r.ret])
    /\ clean' = PlainStepClean
    /\ base' = IF clean' THEN pos' ELSE 0
    /\ UNCHANGED <<size, posLock, prwLock, pc, call, panicked>>
    /\ UNCHANGED <<dirVars, inodeCall, variant>>

\* RegularFile::read / write, up to the suspension in the inode call:
\* lock pos and hand *pos to the inode as the byte offset
ReadWriteBegin(t) ==
    /\ Idle(t)
    /\ ~plain_blocked(posLock, prwLock)
    /\ \E op \in RwOps :
         /\ impl_of(variant, op) \in {"RegularFile", "CharacterFile"}
         /\ call' = [call EXCEPT ![t] = [NoCall EXCEPT !.op = op, !.ioOff = pos]]
         /\ last' = Hist([NoLast EXCEPT !.t = t, !.op = op])
    /\ posLock' = t
    /\ pc' = [pc EXCEPT ![t] = "rw_inode"]
    /\ clean' = PlainStepClean
    /\ base' = IF clean' THEN pos ELSE 0
    /\ UNCHANGED <<pos, size, prwLock, panicked>>
    /\ UNCHANGED <<dirVars, inodeCall, variant>>

InnerOp(op) == IF op \in {"read", "pread", "read_all"} THEN "read" ELSE "write"

InodeResults(op, sz, off) ==
    IF InnerOp(op) = "read" THEN InodeReadResults(sz, off) ELSE InodeWriteResults(off)

\* The bytes inode.read hands back when it returns c at off, as file offsets
InodeBytes(off, c) == [i \in 1..c |-> off + i - 1]

\* Faulty variant: the loop also stops on a read shorter than the buffer
read_all_step_short_stops(buf, off, r) ==
    IF ~r.ok THEN [done |-> TRUE, ret |-> r, buf |-> <<>>]
    ELSE IF r.val < MaxCount
    THEN [done |-> TRUE, ret |-> Ok(Len(buf) + r.val), buf |-> buf \o InodeBytes(off, r.val)]
    ELSE [done |-> FALSE, ret |-> NoRet, buf |-> buf \o InodeBytes(off, r.val)]

\* One turn of read_all's loop once `self.read(&mut tmp)` returned r at off:
\* `?` returns the error; len == 0 breaks and returns Ok(buf); otherwise
\* tmp[..len] is appended and the loop goes round
read_all_step(buf, off, r) ==
    IF ~r.ok THEN [done |-> TRUE, ret |-> r, buf |-> <<>>]
    ELSE IF r.val = 0 THEN [done |-> TRUE, ret |-> Ok(Len(buf)), buf |-> buf]
    ELSE [done |-> FALSE, ret |-> NoRet, buf |-> buf \o InodeBytes(off, r.val)]

\* The rest of read / write: the inode call returns; on Ok(count) the cursor
\* advances by count, on Err the `?` returns with *pos untouched; unlock pos.
\* Called from pread / pwrite the result is kept in `ret`; called from read_all
\* the result goes through read_all_step.
ReadWriteEnd(t) ==
    /\ pc[t] = "rw_inode"
    /\ ~panicked
    /\ \E r \in InodeResults(call[t].op, size, call[t].ioOff) :
       \E a \in (IF r.ok THEN add_assign(pos, r.val) ELSE {[panic |-> FALSE, pos |-> pos]}) :
         /\ panicked' = a.panic
         /\ pos' = a.pos
         /\ size' = IF r.ok /\ InnerOp(call[t].op) = "write"
                    THEN SizeAfterWrite(size, call[t].ioOff, r.val) ELSE size
         /\ posLock' = IF a.panic THEN posLock ELSE 0
         /\ IF a.panic
            THEN /\ UNCHANGED <<pc, call>>
                 /\ last' = Hist([NoLast EXCEPT !.t = t, !.op = "panic"])
            ELSE IF call[t].op \in RwOps
            THEN /\ pc' = [pc EXCEPT ![t] = "idle"]
                 /\ call' = [call EXCEPT ![t] = NoCall]
                 /\ last' = Hist([NoLast EXCEPT !.t = t, !.op = call[t].op, !.done = TRUE, !.ret = r])
            ELSE IF call[t].op = "read_all"
            THEN LET s == read_all_step(call[t].buf, call[t].ioOff, r) IN
                 /\ pc' = [pc EXCEPT ![t] = IF s.done THEN "idle" ELSE "ra_read"]
                 /\ call' = [call EXCEPT ![t] = IF s.done THEN NoCall
                                                ELSE [call[t] EXCEPT !.buf = s.buf, !.ioOff = 0]]
                 /\ last' = Hist([NoLast EXCEPT !.t = t, !.op = "read_all", !.done = s.done,
                                                !.ret = IF s.done THEN s.ret ELSE NoRet,
                                                !.buf = IF s.done THEN s.buf ELSE <<>>,
                                                !.n = IF s.done THEN call[t].n ELSE 0])
            ELSE /\ pc' = [pc EXCEPT ![t] = "p_restore"]
                 /\ call' = [call EXCEPT ![t].ret = r, ![t].ioOff = 0]
                 /\ last' = Hist([NoLast EXCEPT !.t = t, !.op = call[t].op])
    /\ clean' = IF call[t].op \notin PrwOps THEN PlainStepClean ELSE clean
    /\ base' = IF call[t].op \notin PrwOps THEN (IF clean' THEN pos' ELSE 0) ELSE base
    /\ UNCHANGED prwLock
    /\ UNCHANGED <<dirVars, inodeCall, variant>>

\* Faulty variant: a cursor past the new size is pulled back to it
Truncate_clamps_cursor(t) ==
    /\ Idle(t)
    /\ impl_of(variant, "truncate") = "RegularFile"
    /\ \E sz \in Position : \E r \in InodeTruncateResults(sz) :
         /\ size' = IF r.ok THEN sz ELSE size
         /\ pos' = IF r.ok /\ pos > sz THEN sz ELSE pos
         /\ last' = Hist([NoLast EXCEPT !.t = t, !.op = "truncate", !.done = TRUE, !.ret = r])
    /\ UNCHANGED <<posLock, prwLock, pc, call, panicked, base, clean>>
    /\ UNCHANGED <<dirVars, inodeCall, variant>>

\* RegularFile::truncate: the inode call alone, the cursor is not touched
Truncate(t) ==
    /\ Idle(t)
    /\ impl_of(variant, "truncate") = "RegularFile"
    /\ \E sz \in Position : \E r \in InodeTruncateResults(sz) :
         /\ size' = IF r.ok THEN sz ELSE size
         /\ last' = Hist([NoLast EXCEPT !.t = t, !.op = "truncate", !.done = TRUE, !.ret = r])
    /\ UNCHANGED <<pos, posLock, prwLock, pc, call, panicked, base, clean>>
    /\ UNCHANGED <<dirVars, inodeCall, variant>>

\* RegularFile::sync: the inode call alone
Sync(t) ==
    /\ Idle(t)
    /\ impl_of(variant, "sync") = "RegularFile"
    /\ \E r \in {Ok(0), Err("EIO")} :
         last' = Hist([NoLast EXCEPT !.t = t, !.op = "sync", !.done = TRUE, !.ret = r])
    /\ UNCHANGED regVars
    /\ UNCHANGED <<dirVars, inodeCall, variant>>

\* Faulty variant: the outcome of the restoring seek is dropped
prw_return_swallow(restore, ret) == ret

\* pread / pwrite return value once the restoring seek has run:
\* `self.seek(Seek::Set(old)).await?; ret`
prw_return(restore, ret) == IF restore.ok THEN ret ELSE restore

\* pread / pwrite is called; the task waits for prw_lock
PrwCall(t, offsets) ==
    /\ Idle(t)
    /\ \E op \in PrwOps : \E off \in offsets :
         /\ impl_of(variant, op) = "RegularFile"
         /\ call' = [call EXCEPT ![t] = [NoCall EXCEPT !.op = op, !.off = off]]
         /\ last' = Hist([NoLast EXCEPT !.t = t, !.op = op])
    /\ pc' = [pc EXCEPT ![t] = "p_lock"]
    /\ clean' = IF InPrw = {} THEN posLock = 0 ELSE clean
    /\ base' = IF InPrw = {} THEN (IF clean' THEN pos ELSE 0) ELSE base
    /\ UNCHANGED <<pos, size, posLock, prwLock, panicked>>
    /\ UNCHANGED <<dirVars, inodeCall, variant>>

\* `let _lock = self.prw_lock.lock().await;`
PrwAcquire(t) ==
    /\ pc[t] = "p_lock"
    /\ ~panicked
    /\ prwLock = 0
    /\ prwLock' = t
    /\ pc' = [pc EXCEPT ![t] = "p_save"]
    /\ last' = Hist([NoLast EXCEPT !.t = t, !.op = call[t].op])
    /\ UNCHANGED <<pos, size, posLock, call, panicked, base, clean>>
    /\ UNCHANGED <<dirVars, inodeCall, variant>>

\* One of the three seeks inside pread / pwrite: run seek(sk); on Ok go on at
\* nextPc, on Err the `?` returns it, dropping _lock. `capture` marks the seek
\* whose value becomes `old`, `final` the restoring seek, after which the
\* call returns.
PrwSeekStep(t, sk, nextPc, capture, final) ==
    LET r == seek(pos, size, sk)
        returns == final \/ ~r.ret.ok
        result == IF final THEN prw_return(r.ret, call[t].ret) ELSE r.ret
    IN
    /\ ~panicked
    /\ posLock = 0
    /\ pos' = r.pos
    /\ pc' = [pc EXCEPT ![t] = IF returns THEN "idle" ELSE nextPc]
    /\ call' = [call EXCEPT ![t] = IF returns THEN NoCall
                                   ELSE IF capture THEN [call[t] EXCEPT !.old = r.ret.val]
                                   ELSE call[t]]
    /\ prwLock' = IF returns THEN 0 ELSE prwLock
    /\ last' = Hist([NoLast EXCEPT !.t = t, !.op = call[t].op, !.done = returns,
                                   !.sk = sk, !.sret = r.ret,
                                   !.ret = IF returns THEN result ELSE NoRet])
    /\ UNCHANGED <<size, posLock, panicked, base, clean>>
    /\ UNCHANGED <<dirVars, inodeCall, variant>>

\* `let old = self.seek(Seek::Cur(0)).await?;`
PrwSave(t) ==
    /\ pc[t] = "p_save"
    /\ PrwSeekStep(t, [whence |-> "Cur", off |-> 0], "p_set", TRUE, FALSE)

\* `self.seek(Seek::Set(offset)).await?;`
PrwSet(t) ==
    /\ pc[t] = "p_set"
    /\ PrwSeekStep(t, [whence |-> "Set", off |-> call[t].off], "p_io", FALSE, FALSE)

\* `let ret = self.read(buf).await;` up to the suspension in the inode call
PrwIoBegin(t) ==
    /\ pc[t] = "p_io"
    /\ ~panicked
    /\ posLock = 0
    /\ posLock' = t
    /\ call' = [call EXCEPT ![t].ioOff = pos]
    /\ pc' = [pc EXCEPT ![t] = "rw_inode"]
    /\ last' = Hist([NoLast EXCEPT !.t = t, !.op = call[t].op])
    /\ UNCHANGED <<pos, size, prwLock, panicked, base, clean>>
    /\ UNCHANGED <<dirVars, inodeCall, variant>>

\* `self.seek(Seek::Set(old)).await?; ret`
PrwRestore(t) ==
    /\ pc[t] = "p_restore"
    /\ PrwSeekStep(t, [whence |-> "Set", off |-> call[t].old], "idle", FALSE, TRUE)

-----------------------------------------------------------------------------
(* read_all *)

\* `self.seek(Seek::Set(0)).await?; let mut buf = Vec::new();`: the seek is the
\* variant's, the trait's default where the variant has none
ReadAllCall(t) ==
    /\ Idle(t)
    /\ LET own == impl_of(variant, "seek") = "RegularFile"
           sk == [whence |-> "Set", off |-> 0]
           r == IF own THEN seek(pos, size, sk) ELSE [ret |-> default_result("seek"), pos |-> pos]
       IN
       /\ own => posLock = 0
       /\ pos' = r.pos
       /\ pc' = [pc EXCEPT ![t] = IF r.ret.ok THEN "ra_read" ELSE "idle"]
       /\ call' = [call EXCEPT ![t] = IF r.ret.ok THEN [NoCall EXCEPT !.op = "read_all"]
                                      ELSE NoCall]
       /\ last' = Hist([NoLast EXCEPT !.t = t, !.op = "read_all", !.done = ~r.ret.ok,
                                      !.sk = IF own THEN sk ELSE NoSeek,
                                      !.sret = IF own THEN r.ret ELSE NoRet,
                                      !.ret = IF r.ret.ok THEN NoRet ELSE r.ret])
    /\ clean' = PlainStepClean
    /\ base' = IF clean' THEN pos' ELSE 0
    /\ UNCHANGED <<size, posLock, prwLock, panicked>>
    /\ UNCHANGED <<dirVars, inodeCall, variant>>

\* `let len = self.read(&mut tmp).await?;` up to the suspension in the inode
\* call; the read returns in ReadWriteEnd
ReadAllRead(t) ==
    /\ pc[t] = "ra_read"
    /\ ~panicked
    /\ impl_of(variant, "read") \in {"RegularFile", "CharacterFile"}
    /\ posLock = 0
    /\ posLock' = t
    /\ call' = [call EXCEPT ![t].ioOff = pos, ![t].n = call[t].n + 1]
    /\ pc' = [pc EXCEPT ![t] = "rw_inode"]
    /\ last' = Hist([NoLast EXCEPT !.t = t, !.op = "read_all"])
    /\ clean' = PlainStepClean
    /\ base' = IF clean' THEN pos ELSE 0
    /\ UNCHANGED <<pos, size, prwLock, panicked>>
    /\ UNCHANGED <<dirVars, inodeCall, variant>>

-----------------------------------------------------------------------------
(* Calls that reach the trait's default body, and DirFile::read *)

\* A method the variant does not define is called: the default body answers.
\* (ioctl, whose default is told apart by its arguments, is the action Ioctl.)
DefaultCall(t) ==
    /\ Idle(t)
    /\ \E op \in Ops \ {"ioctl"} :
         /\ impl_of(variant, op) = "File"
         /\ last' = Hist([NoLast EXCEPT !.t = t, !.op = op, !.done = TRUE,
                                        !.ret = default_result(op)])
    /\ UNCHANGED <<regVars, dirVars, inodeCall, variant>>

\* DirFile::read
DirRead(t) ==
    /\ Idle(t)
    /\ impl_of(variant, "read") = "DirFile"
    /\ last' = Hist([NoLast EXCEPT !.t = t, !.op = "read", !.done = TRUE,
                                   !.ret = dir_read])
    /\ UNCHANGED <<regVars, dirVars, inodeCall, variant>>

-----------------------------------------------------------------------------
(* Specifications of the regular file *)

DirIdle ==
    /\ dpos = 0
    /\ dirLock = 0
    /\ unlinked = FALSE
    /\ parent = "none"
    /\ nchild = 0
    /\ dlog = <<>>

\* new() of a file with a byte cursor: pos and prw_lock default; the inode
\* has some size
InitCursor(hist) ==
    /\ pos = 0
    /\ size \in 0..MaxPos
    /\ posLock = 0
    /\ prwLock = 0
    /\ pc = [t \in Tasks |-> "idle"]
    /\ call = [t \in Tasks |-> NoCall]
    /\ panicked = FALSE
    /\ base = 0
    /\ clean = TRUE
    /\ last = hist
    /\ DirIdle
    /\ inodeCall = NoIoctl

\* RegularFile::new
InitFile(hist) == InitCursor(hist) /\ variant = "regular"

\* The calls in which a cursor or a lock takes part
CursorStep(t, seeks, offsets) ==
    \/ Seek(t, seeks)
    \/ ReadWriteBegin(t)
    \/ ReadWriteEnd(t)
    \/ PrwCall(t, offsets)
    \/ PrwAcquire(t)
    \/ PrwSave(t)
    \/ PrwSet(t)
    \/ PrwIoBegin(t)
    \/ PrwRestore(t)

\* Arguments of the concurrent calls: positions 0 and MaxPos, one step back,
\* one step forward, the end of the file
ConcSeeks ==
    {[whence |-> "Set", off |-> 0], [whence |-> "Cur", off |-> -1],
     [whence |-> "Cur", off |-> 1], [whence |-> "End", off |-> 0]}
ConcOffsets == {0, MaxPos}

\* Tasks calling into one RegularFile concurrently
Next == \E t \in Tasks : CursorStep(t, ConcSeeks, ConcOffsets)

Init == InitFile(NoHist)

Spec == Init /\ [][Next]_vars

\* The steps by which a call of t that is in flight goes on
Continue(t) ==
    \/ ReadWriteEnd(t)
    \/ PrwAcquire(t)
    \/ PrwSave(t)
    \/ PrwSet(t)
    \/ PrwIoBegin(t)
    \/ PrwRestore(t)

\* Fair scheduling: inode calls return, and a task waiting for an AsyncMutex
\* that is released again and again gets it in the end
SpecLive == Spec /\ \A t \in Tasks : SF_vars(Continue(t))

\* One task: every call returns before the next is made
NextSeq ==
    \/ CursorStep(1, SeekArgs, Position)
    \/ Truncate(1)
    \/ Sync(1)

InitSeq == InitFile(NoLast)

SpecSeq == InitSeq /\ [][NextSeq]_vars

\* Tasks calling read, write and seek concurrently on one file that has a byte
\* cursor (seek is the regular file's alone)
NextRW ==
    \E t \in Tasks :
        \/ Seek(t, ConcSeeks)
        \/ ReadWriteBegin(t)
        \/ ReadWriteEnd(t)

InitRW == InitCursor(NoLast) /\ variant \in {"regular", "char"}

SpecRW == InitRW /\ [][NextRW]_vars

-----------------------------------------------------------------------------
(* DirFile *)

\* Results inode.lookup_idx(idx, audit) may produce with n children: the child,
\* ENOENT past the last child, or another error (the audit refusing)
LookupIdxResults(n, idx) ==
    {[ok |-> FALSE, ino |-> NoIno, err |-> "EACCES"]} \cup
    (IF idx < n THEN {[ok |-> TRUE, ino |-> ChildIno(idx), err |-> "none"]}
     ELSE {[ok |-> FALSE, ino |-> NoIno, err |-> "ENOENT"]})

\* Faulty variant: the unlinked flag is looked at only where children are read
readdir_rejects_children_only(unl, p) == unl /\ p >= 2

\* `if inode.metadata().inner.lock().unlinked { return Err(Errno::ENOENT); }`
readdir_rejects(unl, p) == unl

\* Faulty variant: ".." is the weak parent even when it no longer upgrades
readdir_pseudo_no_upgrade(p, par) ==
    IF p = 0 THEN SelfIno ELSE IF par \in {"live", "dead"} THEN ParentIno ELSE SelfIno

\* The arms `0 =>` and `1 =>` of `match *pos`: "." and ".."
readdir_pseudo(p, par) ==
    IF p = 0 THEN SelfIno ELSE IF par = "live" THEN ParentIno ELSE SelfIno

\* Faulty variant: the child index is one off
lookup_index_off_by_one(p) == p - 1

\* The arm `_ =>`: the index handed to lookup_idx
lookup_index(p) == p - 2

\* Faulty variant: the cursor advances whatever the lookup found
readdir_finish_always_advances(p, res) ==
    IF res.ok
    THEN [pos |-> p + 1, ret |-> Ok(0), ent |-> SomeEnt(p, res.ino)]
    ELSE IF res.err = "ENOENT"
    THEN [pos |-> p + 1, ret |-> Ok(0), ent |-> NoEnt]
    ELSE [pos |-> p + 1, ret |-> Err(res.err), ent |-> NoEnt]

\* The end of readdir with the entry resolved or not: Ok(inode) advances the
\* cursor and returns (cursor before the advance, inode); ENOENT returns
\* Ok(None); any other error is returned; the last two leave the cursor
readdir_finish(p, res) ==
    IF res.ok
    THEN [pos |-> p + 1, ret |-> Ok(0), ent |-> SomeEnt((p + 1) - 1, res.ino)]
    ELSE IF res.err = "ENOENT"
    THEN [pos |-> p, ret |-> Ok(0), ent |-> NoEnt]
    ELSE [pos |-> p, ret |-> Err(res.err), ent |-> NoEnt]

ReaddirReturn(t, f) ==
    /\ dpos' = f.pos
    /\ dirLock' = 0
    /\ pc' = [pc EXCEPT ![t] = "idle"]
    /\ call' = [call EXCEPT ![t] = NoCall]
    /\ dlog' = IF f.ent.some THEN Append(dlog, f.ent) ELSE dlog
    /\ last' = [NoLast EXCEPT !.t = t, !.op = "readdir", !.done = TRUE,
                              !.ret = f.ret, !.ent = f.ent]

\* readdir is called: the unlinked flag is read, and unless it is set the task
\* goes on to wait for the pos lock
ReaddirCall(t) ==
    /\ pc[t] = "idle"
    /\ impl_of(variant, "readdir") = "DirFile"
    /\ IF readdir_rejects(unlinked, dpos)
       THEN /\ last' = [NoLast EXCEPT !.t = t, !.op = "readdir", !.done = TRUE,
                                      !.ret = Err("ENOENT")]
            /\ UNCHANGED <<pc, call>>
       ELSE /\ last' = [NoLast EXCEPT !.t = t, !.op = "readdir"]
            /\ pc' = [pc EXCEPT ![t] = "d_lock"]
            /\ call' = [call EXCEPT ![t] = [NoCall EXCEPT !.op = "readdir"]]
    /\ UNCHANGED <<dirVars, fileVars, inodeCall, variant>>

\* `let mut pos = self.pos.lock().await;` and the match on *pos: "." and ".."
\* are resolved at once, a child suspends in lookup_idx with the lock held
ReaddirLocked(t) ==
    /\ pc[t] = "d_lock"
    /\ dirLock = 0
    /\ IF dpos <= 1
       THEN ReaddirReturn(t, readdir_finish(dpos,
                [ok |-> TRUE, ino |-> readdir_pseudo(dpos, parent), err |-> "none"]))
       ELSE /\ dirLock' = t
            /\ pc' = [pc EXCEPT ![t] = "d_lookup"]
            /\ call' = [call EXCEPT ![t].ioOff = lookup_index(dpos)]
            /\ last' = [NoLast EXCEPT !.t = t, !.op = "readdir"]
            /\ UNCHANGED <<dpos, dlog>>
    /\ UNCHANGED <<unlinked, parent, nchild, fileVars, inodeCall, variant>>

\* lookup_idx returns
ReaddirLookupEnd(t) ==
    /\ pc[t] = "d_lookup"
    /\ \E res \in LookupIdxResults(nchild, call[t].ioOff) :
         ReaddirReturn(t, readdir_finish(dpos, res))
    /\ UNCHANGED <<unlinked, parent, nchild, fileVars, inodeCall, variant>>

\* Another part of the kernel unlinks the directory
Unlink ==
    /\ ~unlinked
    /\ unlinked' = TRUE
    /\ last' = [NoLast EXCEPT !.op = "unlink"]
    /\ UNCHANGED <<dpos, dirLock, parent, nchild, dlog, pc, call, fileVars, inodeCall, variant>>

\* The last strong reference to the parent inode goes: the Weak stops upgrading
ParentDrop ==
    /\ parent = "live"
    /\ parent' = "dead"
    /\ last' = [NoLast EXCEPT !.op = "parent_drop"]
    /\ UNCHANGED <<dpos, dirLock, unlinked, nchild, dlog, pc, call, fileVars, inodeCall, variant>>

\* DirFile::new on a directory inode with some children and some parent
InitDir ==
    /\ dpos = 0
    /\ dirLock = 0
    /\ unlinked = FALSE
    /\ parent \in {"none", "dead", "live"}
    /\ nchild \in 0..MaxChildren
    /\ dlog = <<>>
    /\ pc = [t \in Tasks |-> "idle"]
    /\ call = [t \in Tasks |-> NoCall]
    /\ last = NoLast
    /\ pos = 0
    /\ size = 0
    /\ posLock = 0
    /\ prwLock = 0
    /\ panicked = FALSE
    /\ base = 0
    /\ clean = TRUE
    /\ inodeCall = NoIoctl
    /\ variant = "dir"

NextDir ==
    \/ \E t \in Tasks :
         \/ ReaddirCall(t)
         \/ ReaddirLocked(t)
         \/ ReaddirLookupEnd(t)
    \/ Unlink
    \/ ParentDrop

SpecDir == InitDir /\ [][NextDir]_vars

-----------------------------------------------------------------------------
(* ioctl *)

IoctlArgs == [1..5 -> 0..1]

\* Results inode.ioctl may produce
InodeIoctlResults == {Ok(0), Ok(1), Err("EINVAL")}

\* Faulty variant: two of the arguments change places on the way to the inode
character_ioctl_swapped(request, value, arg2, arg3, arg4, inodeRes) ==
    [called |-> TRUE, passed |-> <<request, arg2, value, arg3, arg4>>, ret |-> inodeRes]

\* CharacterFile::ioctl: `inode.ioctl(request, value, arg2, arg3, arg4)`
character_ioctl(request, value, arg2, arg3, arg4, inodeRes) ==
    [called |-> TRUE, passed |-> <<request, value, arg2, arg3, arg4>>, ret |-> inodeRes]

\* Faulty variant: the default body reports the operation as unsupported
default_ioctl_eopnotsupp(request, arg2, arg3, arg4, arg5) ==
    [called |-> FALSE, passed |-> <<>>, ret |-> Err("EOPNOTSUPP")]

\* File::ioctl, the default body of the trait
default_ioctl(request, arg2, arg3, arg4, arg5) ==
    [called |-> FALSE, passed |-> <<>>, ret |-> Err("ENOTTY")]

\* Which impl blocks define ioctl: CharacterFile alone
overrides_ioctl(kind) == kind = "char"

\* ioctl through the trait object of the file, its arguments drawn from args
IoctlWith(t, args) ==
    /\ pc[t] = "idle"
    /\ \E a \in args : \E res \in InodeIoctlResults :
         LET kind == variant
             r == IF overrides_ioctl(kind)
                  THEN character_ioctl(a[1], a[2], a[3], a[4], a[5], res)
                  ELSE default_ioctl(a[1], a[2], a[3], a[4], a[5])
         IN
         /\ inodeCall' = [kind |-> kind, args |-> a, called |-> r.called,
                          passed |-> r.passed,
                          res |-> IF r.called THEN res ELSE NoRet]
         /\ last' = [NoLast EXCEPT !.t = t, !.op = "ioctl", !.done = TRUE, !.ret = r.ret]
    /\ UNCHANGED <<regVars, dirVars, variant>>

Ioctl(t) == IoctlWith(t, IoctlArgs)

\* new() of any of the three variants
InitIoctl == InitCursor(NoLast) /\ variant \in Variants

NextIoctl == \E t \in Tasks : Ioctl(t)

SpecIoctl == InitIoctl /\ [][NextIoctl]_vars

-----------------------------------------------------------------------------
(* One task calling every method of the trait on a file of any variant *)

AnyIoctlArgs == {[i \in 1..5 |-> 0], [i \in 1..5 |-> i % 2]}

InitAny ==
    \/ InitCursor(NoLast) /\ variant \in {"regular", "char"}
    \/ InitDir

NextAny ==
    \/ CursorStep(1, SeekArgs, Position)
    \/ Truncate(1)
    \/ Sync(1)
    \/ ReadAllCall(1)
    \/ ReadAllRead(1)
    \/ DefaultCall(1)
    \/ DirRead(1)
    \/ ReaddirCall(1)
    \/ ReaddirLocked(1)
    \/ ReaddirLookupEnd(1)
    \/ IoctlWith(1, AnyIoctlArgs)

SpecAny == InitAny /\ [][NextAny]_vars

-----------------------------------------------------------------------------
(* Regular file: the cursor and seek *)

Cur0 == [whence |-> "Cur", off |-> 0]
\* The step just taken ran a seek (called directly or from pread / pwrite)
RanSeek(l) == l.sk.whence \in Whence

\* C1: every seek that returns success returns, and leaves, a cursor that is
\* >= 0: the cursor is never negative in a state reached by a successful seek.
C1_SeekNeverNegative ==
    (RanSeek(last) /\ last.sret.ok) => (last.sret.val >= 0 /\ pos >= 0)

\* C2: with one call at a time, when pread / pwrite returns (the inner read or
\* write having succeeded or failed, or never run) a seek(Cur(0)) returns the
\* cursor held when the call was made.
C2_PrwRestoresCursor ==
    (last.op \in PrwOps /\ last.done) => seek(pos, size, Cur0).ret = Ok(base)

\* C7: seek(Set(o)) with o >= 0 succeeds and returns o, and a seek(Cur(0))
\* made right after it returns o as well.
C7_SetThenCur ==
    (last.op = "seek" /\ last.sk.whence = "Set" /\ last.sk.off >= 0) =>
        /\ last.ret = Ok(last.sk.off)
        /\ seek(pos, size, Cur0).ret = Ok(last.sk.off)

C7_Witness ==
    /\ last.op = "seek"
    /\ last.sk = [whence |-> "Set", off |-> MaxPos]
    /\ last.ret = Ok(MaxPos)
    /\ pos = MaxPos

\* A step that runs a seek: what it returns and what it leaves in *pos
C8_Step ==
    RanSeek(last') =>
        /\ (~last'.sret.ok => pos' = pos)
        /\ (last'.sk.whence = "Set" /\ last'.sk.off < 0 => last'.sret = Err("EINVAL"))
        /\ (last'.sk.whence = "Cur" /\ pos + last'.sk.off \notin Position => ~last'.sret.ok)
        /\ (last'.sk.whence = "End" /\ size + last'.sk.off \notin Position => ~last'.sret.ok)

\* C8: a seek that returns an error leaves the cursor as it was; Set(o) with
\* o < 0 fails with EINVAL, and a Cur or End seek whose sum leaves the range
\* of isize fails.
C8_FailedSeekKeepsCursor == [][C8_Step]_vars

C8_Witness ==
    /\ last.op = "seek"
    /\ last.sk.whence = "Set"
    /\ last.sk.off < 0
    /\ last.sret = Err("EINVAL")
    /\ pos = MaxPos

\* A step that runs a Cur or End seek: the checked sum
C9_Step ==
    (RanSeek(last') /\ last'.sk.whence \in {"Cur", "End"}) =>
        LET from == IF last'.sk.whence = "Cur" THEN pos ELSE size
            sum == from + last'.sk.off
        IN
        /\ (sum > MaxPos => last'.sret = Err("EOVERFLOW") /\ last'.sk.off > 0)
        /\ (sum < MinPos => last'.sret = Err("EINVAL") /\ last'.sk.off < 0)
        /\ (sum \in Position => last'.sret = Ok(sum) /\ pos' = sum)

\* C9: seek(Cur(offset)) fails with EOVERFLOW when cursor + offset > MaxPos and
\* with EINVAL when cursor + offset < MinPos; seek(End(offset)) does the same
\* with the inode size in place of the cursor; otherwise the new position is
\* the sum.
C9_SeekArithmetic == [][C9_Step]_vars

C9_Witness ==
    /\ last.op = "seek"
    /\ last.sk.whence = "Cur"
    /\ last.sk.off > 0
    /\ last.sret = Err("EOVERFLOW")
    /\ pos = MaxPos

-----------------------------------------------------------------------------
(* Regular file: concurrent positioned calls *)

\* The four parts of the exclusion of positioned calls
C3_OneInSection ==
    \A t1, t2 \in Tasks : (InSection(t1) /\ InSection(t2)) => t1 = t2

C3_IoAtRequestedOffset ==
    \A t \in Tasks :
        (clean /\ call[t].op \in PrwOps /\ pc[t] = "rw_inode") =>
            call[t].ioOff = call[t].off

C3_CapturesOwnCursor ==
    \A t \in Tasks : (clean /\ InSection(t)) => call[t].old = base

C3_CursorRestored == (clean /\ InPrw = {}) => pos = base

\* C3: among concurrent pread / pwrite calls with no unpositioned call running,
\* at most one is between its cursor capture and its cursor restoration; each
\* inode call is issued at the offset its call asked for; no call captures a
\* cursor another call relocated; once all have returned the cursor is what
\* it was before any of them began.
C3_PositionedCallsExclusive ==
    /\ C3_OneInSection
    /\ C3_IoAtRequestedOffset
    /\ C3_CapturesOwnCursor
    /\ C3_CursorRestored

-----------------------------------------------------------------------------
(* Directory enumeration *)

\* The entries returned so far, and the entry a returning readdir yields
C4_LogInOrder ==
    /\ Len(dlog) = dpos
    /\ dpos <= nchild + 2
    /\ \A i \in 1..Len(dlog) :
         /\ dlog[i].idx = i - 1
         /\ (i = 1 => dlog[i].ino = SelfIno)
         /\ (i = 2 => dlog[i].ino \in {ParentIno, SelfIno})
         /\ (i >= 3 => dlog[i].ino = ChildIno(i - 3))

C4_Step ==
    (last'.op = "readdir" /\ last'.done /\ last'.ret.ok) =>
        IF dpos = 0 THEN last'.ent = SomeEnt(0, SelfIno)
        ELSE IF dpos = 1
        THEN last'.ent = SomeEnt(1, IF parent = "live" THEN ParentIno ELSE SelfIno)
        ELSE IF dpos <= nchild + 1
        THEN last'.ent = SomeEnt(dpos, ChildIno(dpos - 2))
        ELSE last'.ent = NoEnt /\ dpos' = dpos

\* C4: on a DirFile whose inode has nchild children, the readdir calls that
\* pass the unlinked check yield, in order, (0, self), (1, parent if the weak
\* parent upgrades, else self), then (i, child i-2) for i = 2 .. nchild+1,
\* each carrying the cursor before its advance; from then on, lookup_idx
\* reporting ENOENT, a call returns Ok(None).
C4_ReaddirSequence == []C4_LogInOrder /\ [][C4_Step]_vars

C4_Witness ==
    /\ nchild = MaxChildren
    /\ Len(dlog) = MaxChildren + 2
    /\ dlog[2].ino = ParentIno
    /\ dlog[MaxChildren + 2] = SomeEnt(MaxChildren + 1, ChildIno(MaxChildren - 1))
    /\ last.op = "readdir"
    /\ last.done
    /\ last.ret.ok
    /\ ~last.ent.some

\* A step in which task last'.t calls readdir
ReaddirCalled == last'.op = "readdir" /\ pc[last'.t] = "idle"

\* A readdir called with the unlinked flag set
C5_Step ==
    (ReaddirCalled /\ unlinked) =>
        /\ last'.done
        /\ last'.ret = Err("ENOENT")
        /\ ~last'.ent.some
        /\ pc'[last'.t] = "idle"
        /\ dirLock' = dirLock
        /\ dpos' = dpos

\* C5: a readdir called while the inode is marked unlinked returns ENOENT at
\* every cursor value, starts no child lookup and leaves the cursor.
C5_UnlinkedRejected == [][C5_Step]_vars

C5_Witness ==
    /\ unlinked
    /\ last.op = "readdir"
    /\ last.done
    /\ last.ret = Err("ENOENT")
    /\ dpos >= 2

\* What a step does to the directory cursor
C6_Step ==
    /\ dpos' >= dpos
    /\ (last'.op = "readdir" /\ last'.done) =>
           dpos' = (IF last'.ret.ok /\ last'.ent.some THEN dpos + 1 ELSE dpos)
    /\ ~last'.done => dpos' = dpos

\* C6: over any interleaving of readdir calls the cursor never decreases; it
\* grows by exactly 1 in a call that returns an entry and is left alone by a
\* call that returns Ok(None), a lookup error, or ENOENT for an unlinked inode.
C6_CursorMonotonic == [][C6_Step]_vars

C6_Witness ==
    /\ last.op = "readdir"
    /\ last.done
    /\ last.ent.some
    /\ last.ent.idx = MaxChildren + 1
    /\ dpos = MaxChildren + 2

-----------------------------------------------------------------------------
(* ioctl dispatch *)

\* C10: ioctl on a regular file or a directory returns ENOTTY and does not call
\* the inode; on a character file it calls inode.ioctl with the same request
\* and the same four arguments in the same order, and returns what the inode
\* returned, value or error.
C10_IoctlDispatch ==
    last.op = "ioctl" =>
        IF inodeCall.kind \in {"regular", "dir"}
        THEN /\ ~inodeCall.called
             /\ last.ret = Err("ENOTTY")
        ELSE /\ inodeCall.called
             /\ \A i \in 1..5 : inodeCall.passed[i] = inodeCall.args[i]
             /\ Len(inodeCall.passed) = 5
             /\ last.ret = inodeCall.res

C10_Witness ==
    /\ last.op = "ioctl"
    /\ inodeCall.kind = "char"
    /\ inodeCall.called
    /\ inodeCall.args[2] # inodeCall.args[3]
    /\ last.ret = Err("EINVAL")

-----------------------------------------------------------------------------
(* read_all *)

\* The bytes of a file of size sz, in order
FileBytes(sz) == [i \in 1..sz |-> i - 1]

C11_Step ==
    /\ \A t \in Tasks :
         \* the drain starts by moving the cursor to 0, and its first read is there
         /\ (pc[t] = "idle" /\ pc'[t] = "ra_read") => pos' = 0
         /\ (pc[t] = "ra_read" /\ pc'[t] = "rw_inode") =>
               /\ call'[t].ioOff = pos
               /\ call'[t].n <= size + 1
               /\ call[t].n = 0 => call'[t].ioOff = 0
    /\ (last'.op = "read_all" /\ last'.done) =>
         IF last'.ret.ok
         THEN /\ last'.buf = FileBytes(size)
              /\ last'.ret.val = size
              /\ pos' = size
              /\ size = 0 => last'.n = 1
         ELSE \/ pc[last'.t] = "idle" /\ last'.n = 0 /\ last'.ret.err = "EOPNOTSUPP"
              \/ pc[last'.t] = "rw_inode" /\ last'.ret.err = "EIO"
                   /\ last'.n = call[last'.t].n

\* C11: read_all on a regular file, no other call running: it seeks to 0 and
\* reads until the first read of 0 bytes; a file of size s yields exactly its
\* s bytes in order after at most s + 1 reads, a file of size 0 the empty
\* buffer after exactly one read; a failing seek or read ends the drain at
\* once with that error.
C11_ReadAllDrains == [][C11_Step]_vars

\* A drain of a file of MaxPos bytes that took more than two reads returned
C11_Witness ==
    /\ last.op = "read_all" /\ last.done /\ last.ret.ok
    /\ size = MaxPos /\ last.n > 2 /\ Len(last.buf) = MaxPos

-----------------------------------------------------------------------------
(* Methods a variant does not define *)

C12_Unsupported(kind, op) ==
    \/ kind = "dir" /\ op \in {"write", "truncate", "sync", "seek", "pread", "pwrite"}
    \/ kind = "char" /\ op \in {"truncate", "sync", "seek", "pread", "pwrite"}

\* What a call of op on a file of the variant is to answer, read on a directory
\* answering dirRead; "other" where nothing is said
C12_Table(kind, op, dirRead) ==
    IF kind = "dir" /\ op = "read" THEN dirRead
    ELSE IF C12_Unsupported(kind, op) THEN "EOPNOTSUPP"
    ELSE IF op = "readdir" /\ kind \in {"regular", "char"} THEN "ENOTDIR"
    ELSE IF op = "as_socket" THEN "ENOTSOCK"
    ELSE IF op \in {"pollin", "pollout"} THEN "ready"
    ELSE "other"

C12_StepWith(dirRead) ==
    (last'.done /\ last'.op \in Ops) =>
        LET e == C12_Table(variant, last'.op, dirRead) IN
        e # "other" =>
            /\ IF e = "ready" THEN last'.ret.ok /\ last'.ret.val = 1
               ELSE ~last'.ret.ok /\ last'.ret.err = e
            /\ pos' = pos
            /\ dpos' = dpos

\* C12 as stated: a method called on a variant that does not define it returns
\* the trait's fixed answer and moves no cursor, read on a directory returning
\* operation-not-supported among them.
C12_DefaultsAsStated == [][C12_StepWith("EOPNOTSUPP")]_vars

\* C12: a method called on a variant that does not define it returns the
\* trait's fixed answer (operation-not-supported, not-a-directory, not-a-socket,
\* ready) and moves no cursor; read on a directory is DirFile's own and returns
\* is-a-directory, moving no cursor either.
C12_Defaults == [][C12_StepWith("EISDIR")]_vars

\* read on a directory whose cursor readdir has advanced returned is-a-directory
C12_Witness ==
    /\ variant = "dir" /\ dpos > 0
    /\ last.op = "read" /\ last.done /\ last.ret.err = "EISDIR"

-----------------------------------------------------------------------------
(* pread / pwrite: the restoring seek and the value returned *)

\* A positioned call returns after its seek to the requested offset succeeded:
\* it returns from the restoring seek, Set(old), and with the inner read's or
\* write's result; when that seek fails, with the inner result all the same
\* (swallow) or with the seek's error (~swallow)
C13_StepWith(swallow) ==
    \A t \in Tasks :
        (call[t].op \in PrwOps /\ pc[t] \in {"p_io", "rw_inode", "p_restore"}
            /\ pc'[t] = "idle") =>
            /\ pc[t] = "p_restore"
            /\ last'.sk = [whence |-> "Set", off |-> call[t].old]
            /\ last'.ret = IF swallow \/ last'.sret.ok THEN call[t].ret ELSE last'.sret

-----------------------------------------------------------------------------
(* What prw_lock does not exclude *)

\* C14: the exclusion lock excludes nothing but positioned calls: while a
\* positioned call holds it, a plain read, write or seek of another task can
\* start whenever the position lock is free, so a plain call can run between
\* the relocating and the restoring seek (the state C14_Witness).
C14_PlainNeverExcluded ==
    \A t, u \in Tasks :
        (prwLock = t /\ posLock = 0 /\ Idle(u)) =>
            /\ ENABLED Seek(u, ConcSeeks)
            /\ ENABLED ReadWriteBegin(u)

\* A plain read was issued at the offset a positioned call of another task had
\* moved the cursor to, before that call's own read and its restoring seek
C14_Witness ==
    \E t, u \in Tasks :
        /\ t # u
        /\ call[t].op \in PrwOps /\ pc[t] = "p_io" /\ prwLock = t
        /\ call[t].off # call[t].old
        /\ call[u].op = "read" /\ pc[u] = "rw_inode" /\ posLock = u
        /\ call[u].ioOff = call[t].off

-----------------------------------------------------------------------------
(* read / write: the position lock and the cursor *)

\* The tasks between locking pos and unlocking it in read / write
InCursorSection == {t \in Tasks : pc[t] = "rw_inode"}

C15_Step ==
    /\ Cardinality(InCursorSection') <= 1
    /\ \A t \in InCursorSection' : posLock' = t
    /\ \A t \in Tasks :
         (pc[t] = "idle" /\ pc'[t] = "rw_inode") => call'[t].ioOff = pos
    /\ (last'.done /\ last'.op \in RwOps /\ last'.ret.ok) =>
         /\ call[last'.t].ioOff = pos
         /\ pos' = pos + last'.ret.val

\* C15: the calls that touch the cursor are serialized by the position lock:
\* at most one task is between reading the cursor and updating it; each read
\* or write hands the inode the cursor as it is when its update is applied,
\* and a success with count c leaves cursor + c, so k successes with counts
\* c1..ck from cursor p use the offsets p, p + c1, ... and leave p + c1 + ... + ck.
C15_CursorSerialized == [][C15_Step]_vars

C16_Step ==
    /\ \A t \in Tasks :
         (pc[t] = "idle" /\ pc'[t] = "rw_inode") => call'[t].ioOff = pos
    /\ (last'.done /\ last'.op \in RwOps /\ variant \in {"regular", "char"}) =>
         /\ pc[last'.t] = "rw_inode"
         /\ IF last'.ret.ok
            THEN pos' = pos + last'.ret.val /\ last'.ret.val >= 0
            ELSE pos' = pos

\* C16: read and write on a regular or character file hand the inode the
\* current cursor as the byte offset; when the inode call succeeds with count
\* c the cursor becomes cursor + c and c is returned, when it fails the error
\* is returned and the cursor is unchanged.
C16_ReadWriteAdvance == [][C16_Step]_vars

-----------------------------------------------------------------------------
(* read / write: the cursor at the top of its range *)

C20_Step ==
    \A t \in Tasks :
        (pc[t] = "rw_inode" /\ call[t].op \in RwOps /\ pos \in 0..MaxPos
            /\ <<pos, pc[t], panicked>>' # <<pos, pc[t], panicked>>) =>
            /\ ~panicked'
            /\ pos' \in 0..MaxPos
            /\ last'.ret.ok => pos' = pos + last'.ret.val

\* C20: with positions bounded by MinPos..MaxPos, a read or write whose cursor
\* plus returned count would pass MaxPos fails and leaves the cursor where it
\* was: from a cursor in 0..MaxPos no read or write leaves it outside
\* 0..MaxPos (or brings the kernel down), and a success leaves cursor + count.
C20_ReadWriteStaysInRange == [][C20_Step]_vars

-----------------------------------------------------------------------------
(* Locks: release, order, progress *)

\* The places of a positioned call at which it holds prw_lock
PrwHeldAt == {"p_save", "p_set", "p_io", "rw_inode", "p_restore"}

\* C17: every lock is released on every exit path and prw_lock is taken only
\* by a task that does not hold the pos lock, so no state is reachable in
\* which calls are in flight and none of them can ever go on: a task outside
\* a call holds no lock, a task waiting for prw_lock does not hold the pos
\* lock, and while some call is in flight some step is possible.
C17_NoCallStranded ==
    /\ \A t \in Tasks :
         /\ pc[t] = "idle" => (posLock # t /\ prwLock # t)
         /\ posLock = t => pc[t] = "rw_inode"
         /\ prwLock = t => (call[t].op \in PrwOps /\ pc[t] \in PrwHeldAt)
         /\ pc[t] = "p_lock" => posLock # t
    /\ (\E t \in Tasks : pc[t] # "idle") => ENABLED Next

\* Under SpecLive every call returns unless the kernel has panicked
CallsReturnUnlessPanicked ==
    \A t \in Tasks : (pc[t] # "idle") ~> (pc[t] = "idle" \/ panicked)

-----------------------------------------------------------------------------
(* truncate, sync, ioctl: the cursor is left alone *)

C18_Step ==
    (last'.done /\ (\/ variant = "regular" /\ last'.op \in {"truncate", "sync"}
                    \/ variant = "char" /\ last'.op = "ioctl")) =>
        /\ pos' = pos
        /\ posLock' = posLock

\* C18: truncate and sync on a regular file and ioctl on a character file
\* neither take the position lock nor change the cursor: the cursor after the
\* call is the cursor before it, whatever the inode answers and whatever size
\* truncate was given.
C18_CursorUntouched == [][C18_Step]_vars

\* A successful truncate to a size below the cursor left the cursor where it was
C18_Witness ==
    /\ variant = "regular"
    /\ last.op = "truncate" /\ last.done /\ last.ret.ok
    /\ pos > size /\ pos = MaxPos

-----------------------------------------------------------------------------
(* readdir against a concurrent unlink *)

C19_Step ==
    (last'.op = "readdir" /\ last'.done /\ unlinked) =>
        /\ ~last'.ent.some
        /\ dpos' = dpos

\* C19: in every interleaving of readdir with an action that sets unlinked, no
\* readdir that returns with the flag already set returns an entry or advances
\* the cursor, a call that passed its check and then waited for the position
\* lock included.
C19_NoEntryOnceUnlinked == [][C19_Step]_vars

====
